---- MODULE Spec2Model ----
(***************************************************************************)
(* Model of go/genkit/trace_store_exporter.go: the traceStoreExporter, an  *)
(* OpenTelemetry SpanExporter that groups a batch of spans by trace id,    *)
(* converts each group to a TraceData and saves it to a TraceStore.        *)
(***************************************************************************)
EXTENDS Integers, Sequences, FiniteSets, TLC

(***************************************************************************)
(* Bounds and input domains.                                               *)
(***************************************************************************)
\* Longest batch handed to ExportSpans.
MaxBatch == 3

\* Identifiers are byte arrays (16 bytes for a trace id, 8 for a span id in
\* OpenTelemetry); one byte is kept of each, the rest being zero.
TraceIDs == {<<161>>, <<178>>}
\* The span id of a span's declared parent: all zero (invalid) or a real id.
ParentIDs == {<<0>>, <<10>>}
\* What else tells spans apart: the span id, the name and the start and end
\* times, in nanoseconds since the epoch.  One shape has the empty name.
SpanShapes ==
  { [spanID |-> <<10>>, name |-> "", startTime |-> 1500, endTime |-> 2501],
    [spanID |-> <<11>>, name |-> "b", startTime |-> 2999, endTime |-> 4000] }

\* The nil error, the mark of a call that has not returned, the errors a
\* context reports once it is done, and the errors a store may return from Save.
Nil == "nil"
Pending == "pending"
CtxErrors == {"context canceled"}
StoreErrors == {"store unavailable"}
Calls == {"c1"}

\* Several invocations on one exporter: the calls, and their batches, of at
\* most MaxMultiBatch spans of one trace.
MultiCalls == {"c1", "c2"}
MaxMultiBatch == 1

\* The finished spans the instrumentation layer may hand over.
RawSpans ==
  { [traceID |-> t, spanID |-> sh.spanID, parentSpanID |-> p, name |-> sh.name,
     startTime |-> sh.startTime, endTime |-> sh.endTime, isRemote |-> FALSE,
     attributes |-> <<[Key |-> "k", Value |-> 1], [Key |-> "k", Value |-> 2]>>] :
      t \in TraceIDs, p \in ParentIDs, sh \in SpanShapes }

RECURSIVE SeqsUpTo(_, _)
SeqsUpTo(S, n) ==
  IF n = 0 THEN {<<>>}
  ELSE LET shorter == SeqsUpTo(S, n - 1)
       IN shorter \cup {Append(q, x) : q \in {r \in shorter : Len(r) = n - 1}, x \in S}

Batches == SeqsUpTo(RawSpans, MaxBatch)

MultiBatches == SeqsUpTo({s \in RawSpans : s.traceID = <<161>>}, MaxMultiBatch)

(***************************************************************************)
(* Conversions.                                                            *)
(***************************************************************************)
HexDigits == <<"0", "1", "2", "3", "4", "5", "6", "7", "8", "9", "a", "b", "c", "d", "e", "f">>

HexByte(b) == HexDigits[(b \div 16) + 1] \o HexDigits[(b % 16) + 1]

\* trace.TraceID.String / trace.SpanID.String: lower-case hex of the bytes.
RECURSIVE IDString(_)
IDString(id) == IF id = <<>> THEN "" ELSE HexByte(Head(id)) \o IDString(Tail(id))

\* trace.SpanContext.HasSpanID: the span id is not all zero.
HasSpanID(id) == \E i \in 1..Len(id) : id[i] # 0

\* Timestamps are kept as integers in microseconds since the Unix epoch.
timeToMicroseconds(ns) == ns \div 1000

RECURSIVE attributesToMap(_)
attributesToMap(attrs) ==
  IF attrs = <<>> THEN <<>>
  ELSE LET last == attrs[Len(attrs)]
       IN (last.Key :> last.Value) @@ attributesToMap(SubSeq(attrs, 1, Len(attrs) - 1))

\* convertSpan with the parent's span id printed whether it is valid or not.
convertSpanAnyParent(span) ==
  [SpanID |-> IDString(span.spanID),
   TraceID |-> IDString(span.traceID),
   StartTime |-> timeToMicroseconds(span.startTime),
   EndTime |-> timeToMicroseconds(span.endTime),
   Attributes |-> attributesToMap(span.attributes),
   DisplayName |-> span.name,
   SameProcessAsParentSpan |-> ~span.isRemote,
   ParentSpanID |-> IDString(span.parentSpanID)]

convertSpan(span) ==
  [SpanID |-> IDString(span.spanID),
   TraceID |-> IDString(span.traceID),
   StartTime |-> timeToMicroseconds(span.startTime),
   EndTime |-> timeToMicroseconds(span.endTime),
   Attributes |-> attributesToMap(span.attributes),
   DisplayName |-> span.name,
   SameProcessAsParentSpan |-> ~span.isRemote,
   ParentSpanID |-> IF HasSpanID(span.parentSpanID) THEN IDString(span.parentSpanID) ELSE ""]

ErrMultipleRoots == "more than one parentless span"

\* &TraceData{Spans: map[string]*SpanData{}}
EmptyTraceData == [DisplayName |-> "", StartTime |-> 0, EndTime |-> 0, Spans |-> <<>>]

\* convertTraceFrom with the header fields taken from every span, parentless or not.
RECURSIVE convertTraceFromAnySpan(_, _, _)
convertTraceFromAnySpan(spans, i, td) ==
  IF i > Len(spans) THEN [td |-> <<td>>, err |-> Nil]
  ELSE LET cspan == convertSpan(spans[i])
           isRoot == cspan.ParentSpanID = ""
       IN IF isRoot /\ td.DisplayName # ""
          THEN [td |-> <<>>, err |-> ErrMultipleRoots]
          ELSE convertTraceFromAnySpan(spans, i + 1,
                 [DisplayName |-> cspan.DisplayName,
                  StartTime |-> cspan.StartTime,
                  EndTime |-> cspan.EndTime,
                  Spans |-> (cspan.SpanID :> cspan) @@ td.Spans])

\* convertTraceFrom with a parentless span used for the header only and not
\* entered in Spans.
RECURSIVE convertTraceFromSkipRoot(_, _, _)
convertTraceFromSkipRoot(spans, i, td) ==
  IF i > Len(spans) THEN [td |-> <<td>>, err |-> Nil]
  ELSE LET cspan == convertSpan(spans[i])
           isRoot == cspan.ParentSpanID = ""
       IN IF isRoot /\ td.DisplayName # ""
          THEN [td |-> <<>>, err |-> ErrMultipleRoots]
          ELSE IF isRoot
               THEN convertTraceFromSkipRoot(spans, i + 1,
                      [td EXCEPT !.DisplayName = cspan.DisplayName,
                                 !.StartTime = cspan.StartTime,
                                 !.EndTime = cspan.EndTime])
               ELSE convertTraceFromSkipRoot(spans, i + 1,
                      [td EXCEPT !.Spans = (cspan.SpanID :> cspan) @@ td.Spans])

\* One iteration of convertTrace's loop over the spans, from index i on, with
\* td the TraceData built so far.  The result is <<td>> with a nil error, or
\* <<>> (a nil pointer) with the error.
RECURSIVE convertTraceFrom(_, _, _)
convertTraceFrom(spans, i, td) ==
  IF i > Len(spans) THEN [td |-> <<td>>, err |-> Nil]
  ELSE LET cspan == convertSpan(spans[i])
           isRoot == cspan.ParentSpanID = ""
       IN IF isRoot /\ td.DisplayName # ""
          THEN [td |-> <<>>, err |-> ErrMultipleRoots]
          ELSE LET hd == IF isRoot
                         THEN [td EXCEPT !.DisplayName = cspan.DisplayName,
                                         !.StartTime = cspan.StartTime,
                                         !.EndTime = cspan.EndTime]
                         ELSE td
               IN convertTraceFrom(spans, i + 1,
                    [hd EXCEPT !.Spans = (cspan.SpanID :> cspan) @@ td.Spans])

\* convertTrace refusing a group that has no parentless span.
convertTraceRequireRoot(spans) ==
  IF \A i \in 1..Len(spans) : convertSpan(spans[i]).ParentSpanID # ""
  THEN [td |-> <<>>, err |-> "no parentless span"]
  ELSE convertTraceFrom(spans, 1, EmptyTraceData)

convertTrace(spans) == convertTraceFrom(spans, 1, EmptyTraceData)

\* groupSpans with every span filed under the trace id of the first one.
groupSpansOneKey(spans) ==
  IF spans = <<>> THEN <<>> ELSE (spans[1].traceID :> spans)

\* The grouping loop of ExportSpans: spansByTrace[tid] = append(spansByTrace[tid], span).
RECURSIVE groupSpans(_)
\* groupSpans with each group built by prepending: the groups come out in
\* reverse batch order.
groupSpansPrepend(spans) ==
  [tid \in {spans[i].traceID : i \in 1..Len(spans)} |->
     LET g == SelectSeq(spans, LAMBDA s : s.traceID = tid)
     IN [k \in 1..Len(g) |-> g[Len(g) + 1 - k]]]

groupSpans(spans) ==
  IF spans = <<>> THEN <<>>
  ELSE LET n == Len(spans)
           m == groupSpans(SubSeq(spans, 1, n - 1))
           tid == spans[n].traceID
       IN IF tid \in DOMAIN m
          THEN [m EXCEPT ![tid] = Append(@, spans[n])]
          ELSE (tid :> <<spans[n]>>) @@ m

(***************************************************************************)
(* State.                                                                  *)
(***************************************************************************)
VARIABLES
  batch,         \* per call: the spans argument of ExportSpans
  ctxErr,        \* per call: ctx.Err() of the call's context
  pc,            \* per call: position in ExportSpans
  spansByTrace,  \* per call: the local map built by the grouping loop
  todo,          \* per call: keys of spansByTrace the range loop has not visited
  cur,           \* per call: <<tid>> of the iteration in progress, or <<>>
  td,            \* per call: <<TraceData>> returned by convertTrace, or <<>>
  converted,     \* per call: trace ids whose convertTrace returned, in order
  ret,           \* per call: the error returned, Pending until the call returns
  cancelAt,      \* per call: <<where the call stood when its context was done>>, or <<>>
  shutdown,      \* <<the last Shutdown call: its context, the calls not yet begun>>, or <<>>
  store,         \* the TraceStore: trace id string -> TraceData last saved
  saveLog        \* every Save call the store received, in order

vars == <<batch, ctxErr, pc, spansByTrace, todo, cur, td, converted, ret, cancelAt, shutdown, store, saveLog>>

Init ==
  /\ batch \in [Calls -> Batches]
  /\ ctxErr = [c \in Calls |-> Nil]
  /\ pc = [c \in Calls |-> "idle"]
  /\ spansByTrace = [c \in Calls |-> <<>>]
  /\ todo = [c \in Calls |-> {}]
  /\ cur = [c \in Calls |-> <<>>]
  /\ td = [c \in Calls |-> <<>>]
  /\ converted = [c \in Calls |-> <<>>]
  /\ ret = [c \in Calls |-> Pending]
  /\ cancelAt = [c \in Calls |-> <<>>]
  /\ shutdown = <<>>
  /\ store = <<>>
  /\ saveLog = <<>>

(***************************************************************************)
(* Actions.                                                                *)
(***************************************************************************)
\* The trace ids of the batch whose iteration has not started.
Unvisited(c) ==
  IF pc[c] = "idle" THEN {batch[c][i].traceID : i \in 1..Len(batch[c])} ELSE todo[c]

\* The owner of the context cancels it, or its deadline passes.
Cancel(c) ==
  /\ ctxErr[c] = Nil
  /\ pc[c] # "done"
  /\ \E e \in CtxErrors : ctxErr' = [ctxErr EXCEPT ![c] = e]
  /\ cancelAt' = [cancelAt EXCEPT ![c] = <<[pc |-> pc[c], cur |-> cur[c], todo |-> Unvisited(c)]>>]
  /\ UNCHANGED <<shutdown, batch, pc, spansByTrace, todo, cur, td, converted, ret, store, saveLog>>

\* Group with spansByTrace kept in the exporter: the spans of the invocations
\* that began earlier are still in it.
GroupShared(c) ==
  /\ pc[c] = "idle"
  /\ LET began == {o \in DOMAIN pc : o # c /\ pc[o] # "idle"}
         all == IF began = {} THEN batch[c]
                ELSE batch[CHOOSE o \in began : TRUE] \o batch[c]
     IN /\ spansByTrace' = [spansByTrace EXCEPT ![c] = groupSpans(all)]
        /\ todo' = [todo EXCEPT ![c] = DOMAIN groupSpans(all)]
  /\ pc' = [pc EXCEPT ![c] = "loop"]
  /\ UNCHANGED <<shutdown, batch, ctxErr, cancelAt, cur, td, converted, ret, store, saveLog>>

\* ExportSpans is entered: the grouping loop runs.
Group(c) ==
  /\ pc[c] = "idle"
  /\ spansByTrace' = [spansByTrace EXCEPT ![c] = groupSpans(batch[c])]
  /\ todo' = [todo EXCEPT ![c] = DOMAIN groupSpans(batch[c])]
  /\ pc' = [pc EXCEPT ![c] = "loop"]
  /\ UNCHANGED <<shutdown, batch, ctxErr, cancelAt, cur, td, converted, ret, store, saveLog>>

\* ReturnNil with the context's error returned once the loop is over.
ReturnCtxErrAtEnd(c) ==
  /\ pc[c] = "loop"
  /\ todo[c] = {}
  /\ pc' = [pc EXCEPT ![c] = "done"]
  /\ ret' = [ret EXCEPT ![c] = ctxErr[c]]
  /\ UNCHANGED <<shutdown, batch, ctxErr, cancelAt, spansByTrace, todo, cur, td, converted, store, saveLog>>

\* The range loop is exhausted: return nil.
ReturnNil(c) ==
  /\ pc[c] = "loop"
  /\ todo[c] = {}
  /\ pc' = [pc EXCEPT ![c] = "done"]
  /\ ret' = [ret EXCEPT ![c] = Nil]
  /\ UNCHANGED <<shutdown, batch, ctxErr, cancelAt, spansByTrace, todo, cur, td, converted, store, saveLog>>

\* ReturnCtxErr with the loop left by a plain return of nil.
ReturnCtxErrAsNil(c) ==
  /\ pc[c] = "loop"
  /\ todo[c] # {}
  /\ ctxErr[c] # Nil
  /\ pc' = [pc EXCEPT ![c] = "done"]
  /\ ret' = [ret EXCEPT ![c] = Nil]
  /\ UNCHANGED <<shutdown, batch, ctxErr, cancelAt, spansByTrace, todo, cur, td, converted, store, saveLog>>

\* An iteration starts with the context done: return ctx.Err().  The two
\* reads of ctx.Err() agree: once non-nil it keeps returning the same error.
ReturnCtxErr(c) ==
  /\ pc[c] = "loop"
  /\ todo[c] # {}
  /\ ctxErr[c] # Nil
  /\ pc' = [pc EXCEPT ![c] = "done"]
  /\ ret' = [ret EXCEPT ![c] = ctxErr[c]]
  /\ UNCHANGED <<shutdown, batch, ctxErr, cancelAt, spansByTrace, todo, cur, td, converted, store, saveLog>>

\* An iteration starts with the context live: the range yields some key
\* not yet visited (the order of a Go map range is unspecified).
Iterate(c) ==
  /\ pc[c] = "loop"
  /\ ctxErr[c] = Nil
  /\ \E tid \in todo[c] :
       /\ cur' = [cur EXCEPT ![c] = <<tid>>]
       /\ todo' = [todo EXCEPT ![c] = @ \ {tid}]
  /\ pc' = [pc EXCEPT ![c] = "convert"]
  /\ UNCHANGED <<shutdown, batch, ctxErr, cancelAt, spansByTrace, td, converted, ret, store, saveLog>>

\* Convert handing convertTrace the whole batch instead of the group of the
\* trace being processed.
ConvertWholeBatch(c) ==
  /\ pc[c] = "convert"
  /\ LET r == convertTrace(batch[c])
     IN IF r.err # Nil
        THEN /\ pc' = [pc EXCEPT ![c] = "done"]
             /\ ret' = [ret EXCEPT ![c] = r.err]
             /\ UNCHANGED <<td, converted>>
        ELSE /\ pc' = [pc EXCEPT ![c] = "save"]
             /\ td' = [td EXCEPT ![c] = r.td]
             /\ converted' = [converted EXCEPT ![c] = Append(@, cur[c][1])]
             /\ UNCHANGED ret
  /\ UNCHANGED <<shutdown, batch, ctxErr, cancelAt, spansByTrace, todo, cur, store, saveLog>>

\* Convert with a conversion that counts: every span converted carries, in
\* its StartTime, the number of Save calls the exporter has made so far.
ConvertCounting(c) ==
  /\ pc[c] = "convert"
  /\ LET r == convertTrace(spansByTrace[c][cur[c][1]])
     IN IF r.err # Nil
        THEN /\ pc' = [pc EXCEPT ![c] = "done"]
             /\ ret' = [ret EXCEPT ![c] = r.err]
             /\ UNCHANGED <<td, converted>>
        ELSE /\ pc' = [pc EXCEPT ![c] = "save"]
             /\ td' = [td EXCEPT ![c] =
                         <<[r.td[1] EXCEPT !.Spans =
                              [k \in DOMAIN r.td[1].Spans |->
                                 [r.td[1].Spans[k] EXCEPT !.StartTime = @ + Len(saveLog)]]]>>]
             /\ converted' = [converted EXCEPT ![c] = Append(@, cur[c][1])]
             /\ UNCHANGED ret
  /\ UNCHANGED <<shutdown, batch, ctxErr, cancelAt, spansByTrace, todo, cur, store, saveLog>>

\* td, err := convertTrace(spans); if err != nil { return err }
Convert(c) ==
  /\ pc[c] = "convert"
  /\ LET r == convertTrace(spansByTrace[c][cur[c][1]])
     IN IF r.err # Nil
        THEN /\ pc' = [pc EXCEPT ![c] = "done"]
             /\ ret' = [ret EXCEPT ![c] = r.err]
             /\ UNCHANGED <<td, converted>>
        ELSE /\ pc' = [pc EXCEPT ![c] = "save"]
             /\ td' = [td EXCEPT ![c] = r.td]
             /\ converted' = [converted EXCEPT ![c] = Append(@, cur[c][1])]
             /\ UNCHANGED ret
  /\ UNCHANGED <<shutdown, batch, ctxErr, cancelAt, spansByTrace, todo, cur, store, saveLog>>

\* SaveCall with the context looked at once more before the store is called.
SaveCallCheckingCtx(c) ==
  /\ pc[c] = "save"
  /\ IF ctxErr[c] # Nil
     THEN /\ pc' = [pc EXCEPT ![c] = "done"]
          /\ ret' = [ret EXCEPT ![c] = ctxErr[c]]
          /\ UNCHANGED saveLog
     ELSE /\ saveLog' = Append(saveLog, [call |-> c, tid |-> IDString(cur[c][1]),
                                         td |-> td[c][1], res |-> Pending])
          /\ pc' = [pc EXCEPT ![c] = "saving"]
          /\ UNCHANGED ret
  /\ UNCHANGED <<shutdown, batch, ctxErr, cancelAt, spansByTrace, todo, cur, td, converted, store>>

\* SaveCall with the Save started and the loop carried on without waiting for it.
SaveCallAsync(c) ==
  /\ pc[c] = "save"
  /\ saveLog' = Append(saveLog, [call |-> c, tid |-> IDString(cur[c][1]),
                                 td |-> td[c][1], res |-> Pending])
  /\ pc' = [pc EXCEPT ![c] = "loop"]
  /\ UNCHANGED <<shutdown, batch, ctxErr, cancelAt, spansByTrace, todo, cur, td, converted, ret, store>>

\* SaveCall that first reads the stored document of the trace and adds its
\* spans to the document it saves.
SaveCallMerging(c) ==
  /\ pc[c] = "save"
  /\ LET tid == IDString(cur[c][1])
         old == IF tid \in DOMAIN store THEN store[tid].Spans ELSE <<>>
         doc == [td[c][1] EXCEPT !.Spans = td[c][1].Spans @@ old]
     IN saveLog' = Append(saveLog, [call |-> c, tid |-> tid, td |-> doc, res |-> Pending])
  /\ pc' = [pc EXCEPT ![c] = "saving"]
  /\ UNCHANGED <<shutdown, batch, ctxErr, cancelAt, spansByTrace, todo, cur, td, converted, ret, store>>

\* e.store.Save(ctx, tid.String(), td) is called.
SaveCall(c) ==
  /\ pc[c] = "save"
  /\ saveLog' = Append(saveLog, [call |-> c, tid |-> IDString(cur[c][1]),
                                 td |-> td[c][1], res |-> Pending])
  /\ pc' = [pc EXCEPT ![c] = "saving"]
  /\ UNCHANGED <<shutdown, batch, ctxErr, cancelAt, spansByTrace, todo, cur, td, converted, ret, store>>

\* The index in saveLog of the Save call c is waiting for.
InFlight(c) == {i \in 1..Len(saveLog) : saveLog[i].call = c /\ saveLog[i].res = Pending}

\* SaveReturn with the store's error dropped and the loop carried on.
SaveReturnSwallow(c) ==
  /\ pc[c] = "saving"
  /\ \E i \in InFlight(c), err \in {Nil} \cup StoreErrors :
       /\ saveLog' = [saveLog EXCEPT ![i].res = err]
       /\ store' = IF err = Nil THEN (saveLog[i].tid :> saveLog[i].td) @@ store ELSE store
       /\ pc' = [pc EXCEPT ![c] = "loop"]
  /\ UNCHANGED <<shutdown, batch, ctxErr, cancelAt, spansByTrace, todo, cur, td, converted, ret>>

\* Save returns: nil after storing the document under its trace id, or an error.
SaveReturn(c) ==
  /\ pc[c] = "saving"
  /\ \E i \in InFlight(c), err \in {Nil} \cup StoreErrors :
       /\ saveLog' = [saveLog EXCEPT ![i].res = err]
       /\ IF err = Nil
          THEN /\ store' = (saveLog[i].tid :> saveLog[i].td) @@ store
               /\ pc' = [pc EXCEPT ![c] = "loop"]
               /\ UNCHANGED ret
          ELSE /\ pc' = [pc EXCEPT ![c] = "done"]
               /\ ret' = [ret EXCEPT ![c] = err]
               /\ UNCHANGED store
  /\ UNCHANGED <<shutdown, batch, ctxErr, cancelAt, spansByTrace, todo, cur, td, converted>>

Next ==
  \E c \in Calls :
    \/ Cancel(c)
    \/ Group(c)
    \/ ReturnNil(c)
    \/ ReturnCtxErr(c)
    \/ Iterate(c)
    \/ Convert(c)
    \/ SaveCall(c)
    \/ SaveReturn(c)

Spec == Init /\ [][Next]_vars

(***************************************************************************)
(* One exporter used by several ExportSpans invocations, concurrent or one *)
(* after the other, and by Shutdown.                                       *)
(***************************************************************************)
InitMulti ==
  /\ batch \in [MultiCalls -> MultiBatches]
  /\ ctxErr = [c \in MultiCalls |-> Nil]
  /\ pc = [c \in MultiCalls |-> "idle"]
  /\ spansByTrace = [c \in MultiCalls |-> <<>>]
  /\ todo = [c \in MultiCalls |-> {}]
  /\ cur = [c \in MultiCalls |-> <<>>]
  /\ td = [c \in MultiCalls |-> <<>>]
  /\ converted = [c \in MultiCalls |-> <<>>]
  /\ ret = [c \in MultiCalls |-> Pending]
  /\ cancelAt = [c \in MultiCalls |-> <<>>]
  /\ shutdown = <<>>
  /\ store = <<>>
  /\ saveLog = <<>>

\* func (e *traceStoreExporter) Shutdown(ctx context.Context) error { return nil }
\* The call is recorded with the state of its context and the invocations
\* that had not begun.
\* Shutdown that closes the exporter: the invocations not yet begun find
\* their context cancelled.
ShutdownClosing ==
  /\ \E done \in BOOLEAN :
       shutdown' = <<[ret |-> Nil, ctxDone |-> done,
                      idle |-> {c \in DOMAIN pc : pc[c] = "idle"}]>>
  /\ ctxErr' = [c \in DOMAIN pc |-> IF pc[c] = "idle" THEN "context canceled" ELSE ctxErr[c]]
  /\ UNCHANGED <<batch, pc, spansByTrace, todo, cur, td, converted, ret, cancelAt,
                 store, saveLog>>

Shutdown ==
  /\ \E done \in BOOLEAN :
       shutdown' = <<[ret |-> Nil, ctxDone |-> done,
                      idle |-> {c \in DOMAIN pc : pc[c] = "idle"}]>>
  /\ UNCHANGED <<batch, ctxErr, pc, spansByTrace, todo, cur, td, converted, ret, cancelAt,
                 store, saveLog>>

NextMulti ==
  \E c \in MultiCalls :
    \/ Cancel(c)
    \/ Group(c)
    \/ ReturnNil(c)
    \/ ReturnCtxErr(c)
    \/ Iterate(c)
    \/ Convert(c)
    \/ SaveCall(c)
    \/ SaveReturn(c)

\* The invocations run concurrently.
SpecMulti == InitMulti /\ [][NextMulti]_vars

\* The invocations that must have returned before invocation c is made, when
\* the caller makes them one after the other.
Before(c) == IF c = "c2" THEN {"c1"} ELSE {}

NextSeq ==
  \/ \E c \in MultiCalls :
       /\ \A o \in Before(c) : pc[o] = "done"
       /\ \/ Cancel(c)
          \/ Group(c)
          \/ ReturnNil(c)
          \/ ReturnCtxErr(c)
          \/ Iterate(c)
          \/ Convert(c)
          \/ SaveCall(c)
          \/ SaveReturn(c)
  \/ Shutdown

\* The invocations run one after the other, Shutdown at any time.
SpecSeq == InitMulti /\ [][NextSeq]_vars

(***************************************************************************)
(* Vocabulary of the properties.                                           *)
(***************************************************************************)
\* The positions in a group of the spans whose converted ParentSpanID is empty.
Parentless(spans) == {i \in 1..Len(spans) : convertSpan(spans[i]).ParentSpanID = ""}

Range(f) == {f[i] : i \in DOMAIN f}

\* The positions in saveLog of the Save calls made by call c.
SavesOf(c) == {i \in 1..Len(saveLog) : saveLog[i].call = c}

\* The Save calls of call c for trace id tid.
SavesOfTrace(c, tid) == {i \in SavesOf(c) : saveLog[i].tid = IDString(tid)}

\* The spans of a saved document whose ParentSpanID is empty.
ParentlessIn(doc) == {k \in DOMAIN doc.Spans : doc.Spans[k].ParentSpanID = ""}

\* convertTrace has run on the group of the iteration in progress.
ConvertedCur(c) == cur[c] # <<>> /\ pc[c] # "convert"

CurGroup(c) == spansByTrace[c][cur[c][1]]

(***************************************************************************)
(* C1.  A trace group with two or more parentless spans, whatever their    *)
(* names, times and order, makes convertTrace fail with the multiple-root  *)
(* error and return no document; ExportSpans makes no Save call for that   *)
(* trace id, and so every document passed to Save holds at most one span   *)
(* with an empty ParentSpanID.                                             *)
(***************************************************************************)
C1_MultipleRootsRejected ==
  \A c \in Calls :
    /\ \A tid \in DOMAIN spansByTrace[c] :
         Cardinality(Parentless(spansByTrace[c][tid])) >= 2 =>
           /\ SavesOfTrace(c, tid) = {}
           /\ (ConvertedCur(c) /\ cur[c][1] = tid) =>
                 pc[c] = "done" /\ ret[c] = ErrMultipleRoots
    /\ \A i \in SavesOf(c) : Cardinality(ParentlessIn(saveLog[i].td)) <= 1

(***************************************************************************)
(* C2.  ExportSpans is fail-fast and not atomic: at the first trace whose  *)
(* assembly fails or whose Save returns an error it returns exactly that   *)
(* error, does not retry, and issues no further Save; every Save that      *)
(* completed earlier in the invocation stays in the store.                 *)
(***************************************************************************)
C2_FailFast ==
  \A c \in Calls :
    /\ \A i \in SavesOf(c) :
         saveLog[i].res # Nil =>
           /\ \A j \in SavesOf(c) : j <= i
           /\ \/ saveLog[i].res = Pending /\ pc[c] = "saving"
              \/ pc[c] = "done" /\ ret[c] = saveLog[i].res
    /\ (ConvertedCur(c) /\ convertTrace(CurGroup(c)).err # Nil) =>
         /\ pc[c] = "done"
         /\ ret[c] = convertTrace(CurGroup(c)).err
         /\ SavesOfTrace(c, cur[c][1]) = {}
    /\ (pc[c] = "done" /\ ret[c] # Nil) =>
         \A tid \in todo[c] : SavesOfTrace(c, tid) = {} /\ tid \notin Range(converted[c])
    /\ \A i \in SavesOf(c) :
         saveLog[i].res = Nil =>
           saveLog[i].tid \in DOMAIN store /\ store[saveLog[i].tid] = saveLog[i].td

\* A call that saved one trace and returned the store's error for the next.
C2_Witness ==
  \E c \in Calls :
    /\ pc[c] = "done"
    /\ ret[c] \in StoreErrors
    /\ \E i \in SavesOf(c) : saveLog[i].res = Nil /\ saveLog[i].tid \in DOMAIN store

BatchTraceIDs(c) == {IDString(batch[c][k].traceID) : k \in 1..Len(batch[c])}

SavedTraceIDs(c) == {saveLog[i].tid : i \in SavesOf(c)}

NoAbort(c) ==
  /\ ctxErr[c] = Nil
  /\ \A i \in SavesOf(c) : saveLog[i].res = Nil
  /\ \A tid \in DOMAIN spansByTrace[c] : convertTrace(spansByTrace[c][tid]).err = Nil

(***************************************************************************)
(* C3.  In any ExportSpans invocation Save is called at most once per      *)
(* trace id and only for trace ids that occur in the batch; an invocation  *)
(* that ends without early abort (no assembly error, no store error, no    *)
(* cancellation) returns success, and the trace ids passed to Save are     *)
(* then exactly the distinct trace ids of the batch.                       *)
(***************************************************************************)
C3_SaveOncePerTrace ==
  \A c \in Calls :
    /\ \A i, j \in SavesOf(c) : saveLog[i].tid = saveLog[j].tid => i = j
    /\ SavedTraceIDs(c) \subseteq BatchTraceIDs(c)
    /\ (pc[c] = "done" /\ NoAbort(c)) => ret[c] = Nil
    /\ (pc[c] = "done" /\ ret[c] = Nil) => SavedTraceIDs(c) = BatchTraceIDs(c)

\* A call over a batch of two traces that returned nil.
C3_Witness ==
  \E c \in Calls :
    /\ pc[c] = "done"
    /\ NoAbort(c)
    /\ Cardinality(BatchTraceIDs(c)) = 2
    /\ Cardinality(SavesOf(c)) = 2

\* The context of call c was done before the first iteration began.
CancelledBeforeAnyTrace(c) ==
  /\ cancelAt[c] # <<>>
  /\ cancelAt[c][1].pc \in {"idle", "loop"}
  /\ cancelAt[c][1].cur = <<>>

(***************************************************************************)
(* C4.  As claimed: if the context is already cancelled before ExportSpans *)
(* has processed any trace, ExportSpans returns the context's error and    *)
(* makes zero Save calls.  This fails for the empty batch, where the loop  *)
(* body and its check never run and nil is returned.  What holds: with a   *)
(* batch of at least one span, a context cancelled before any trace is     *)
(* processed makes ExportSpans return the context's error with zero Save   *)
(* calls.                                                                  *)
(***************************************************************************)
C4_CancelledBeforeAnyTrace_AsClaimed ==
  \A c \in Calls :
    (pc[c] = "done" /\ CancelledBeforeAnyTrace(c)) =>
      ret[c] = ctxErr[c] /\ ret[c] \in CtxErrors /\ SavesOf(c) = {}

\* C4 as amended: the batch holds at least one span.
C4_CancelledBeforeAnyTrace ==
  \A c \in Calls :
    (pc[c] = "done" /\ CancelledBeforeAnyTrace(c) /\ batch[c] # <<>>) =>
      ret[c] = ctxErr[c] /\ ret[c] \in CtxErrors /\ SavesOf(c) = {} /\ converted[c] = <<>>

\* A call over a batch of two traces, cancelled before its first iteration, has returned.
C4_Witness ==
  \E c \in Calls :
    /\ pc[c] = "done"
    /\ CancelledBeforeAnyTrace(c)
    /\ Cardinality(BatchTraceIDs(c)) = 2

\* The context of call c was done in the middle of an iteration.
CancelledMidTrace(c) ==
  cancelAt[c] # <<>> /\ cancelAt[c][1].pc \in {"convert", "save", "saving"}

\* The Save of the iteration that was in progress at the cancellation returned nil.
MidTraceSaved(c) ==
  \E i \in SavesOfTrace(c, cancelAt[c][1].cur[1]) : saveLog[i].res = Nil

(***************************************************************************)
(* C5.  Cancellation is observed once per trace, at the start of that      *)
(* trace's iteration: when the context is cancelled while a trace is being *)
(* converted or saved, that trace's conversion and its Save call still     *)
(* complete; no trace whose iteration would start after the cancellation   *)
(* is assembled or saved, and ExportSpans then returns the context's error.*)
(***************************************************************************)
C5_CancellationPerTrace ==
  \A c \in Calls :
    cancelAt[c] # <<>> =>
      LET k == cancelAt[c][1]
      IN /\ (k.pc = "convert" /\ pc[c] # "convert") =>
              \/ k.cur[1] \in Range(converted[c])
              \/ pc[c] = "done" /\ ret[c] = ErrMultipleRoots
         /\ (CancelledMidTrace(c) /\ k.cur[1] \in Range(converted[c])) =>
              /\ pc[c] \notin {"convert", "save"} => SavesOfTrace(c, k.cur[1]) # {}
              /\ pc[c] \in {"loop", "done"} =>
                   \E i \in SavesOfTrace(c, k.cur[1]) : saveLog[i].res # Pending
         /\ \A tid \in k.todo :
              tid \notin Range(converted[c]) /\ SavesOfTrace(c, tid) = {}
         /\ (pc[c] = "done" /\ k.todo # {} /\ (CancelledMidTrace(c) => MidTraceSaved(c))) =>
              ret[c] = ctxErr[c] /\ ret[c] \in CtxErrors
         /\ (pc[c] = "done" /\ k.todo = {} /\ CancelledMidTrace(c) /\ MidTraceSaved(c)) =>
              ret[c] = Nil

\* A call cancelled while converting its first trace saved that trace and
\* returned the context's error without touching the second trace.
C5_Witness ==
  \E c \in Calls :
    /\ pc[c] = "done"
    /\ cancelAt[c] # <<>>
    /\ cancelAt[c][1].pc = "convert"
    /\ cancelAt[c][1].todo # {}
    /\ MidTraceSaved(c)
    /\ ret[c] \in CtxErrors

(***************************************************************************)
(* C6.  A trace group with exactly one parentless span, at any position,   *)
(* is converted without error, and the document's DisplayName, StartTime   *)
(* and EndTime are that span's name, start time and end time, whatever the *)
(* other spans of the group are.                                           *)
(***************************************************************************)
C6_SingleRootHeader ==
  \A c \in Calls :
    (ConvertedCur(c) /\ Cardinality(Parentless(CurGroup(c))) = 1) =>
      LET root == CurGroup(c)[CHOOSE i \in Parentless(CurGroup(c)) : TRUE]
      IN /\ ret[c] # ErrMultipleRoots
         /\ td[c] # <<>>
         /\ td[c][1].DisplayName = root.name
         /\ td[c][1].StartTime = timeToMicroseconds(root.startTime)
         /\ td[c][1].EndTime = timeToMicroseconds(root.endTime)

\* A converted group of three spans whose only parentless span is the second,
\* the last span differing from it in name and times.
C6_Witness ==
  \E c \in Calls :
    /\ ConvertedCur(c)
    /\ Len(CurGroup(c)) = 3
    /\ Parentless(CurGroup(c)) = {2}
    /\ CurGroup(c)[3].name # CurGroup(c)[2].name
    /\ CurGroup(c)[3].startTime # CurGroup(c)[2].startTime
    /\ td[c] # <<>>

(***************************************************************************)
(* C7.  A trace group with no parentless span is converted without error,  *)
(* the document's DisplayName, StartTime and EndTime keep their zero       *)
(* values, and ExportSpans passes that document to Save.                   *)
(***************************************************************************)
C7_NoRootStillSaved ==
  \A c \in Calls :
    (ConvertedCur(c) /\ Parentless(CurGroup(c)) = {}) =>
      /\ cur[c][1] \in Range(converted[c])
      /\ td[c] # <<>>
      /\ td[c][1].DisplayName = ""
      /\ td[c][1].StartTime = 0
      /\ td[c][1].EndTime = 0
      /\ pc[c] # "save" =>
           \E i \in SavesOfTrace(c, cur[c][1]) : saveLog[i].td = td[c][1]

\* The Save call for a group of two spans that both have a parent has been made.
C7_Witness ==
  \E c \in Calls :
    /\ ConvertedCur(c)
    /\ Parentless(CurGroup(c)) = {}
    /\ Len(CurGroup(c)) >= 2
    /\ \E i \in SavesOfTrace(c, cur[c][1]) :
         saveLog[i].td.DisplayName = "" /\ DOMAIN saveLog[i].td.Spans # {}

\* convertTrace has returned a document for the group of the iteration in progress.
AssembledCur(c) == ConvertedCur(c) /\ cur[c][1] \in Range(converted[c]) /\ td[c] # <<>>

\* The last position in spans of a span with the span id of spans[i].
LastWithID(spans, i) ==
  CHOOSE j \in i..Len(spans) :
    /\ spans[j].spanID = spans[i].spanID
    /\ \A k \in (j + 1)..Len(spans) : spans[k].spanID # spans[i].spanID

KeysAreSpanIDs(doc) == \A k \in DOMAIN doc.Spans : doc.Spans[k].SpanID = k

(***************************************************************************)
(* C8.  As claimed: in every successfully assembled document each entry of *)
(* Spans has SpanID equal to its key, and for each input span of the group *)
(* the value stored at its span id is the conversion of that span.  This   *)
(* fails when two spans of the group carry the same span id: the later one *)
(* replaces the earlier.  What holds: each entry has SpanID equal to its   *)
(* key, the keys are exactly the span ids of the group (root or not), and  *)
(* the value stored at a span id is the conversion of the last span of the *)
(* group carrying that id (of the span itself when ids are distinct).      *)
(***************************************************************************)
C8_SpansCoverGroup_AsClaimed ==
  \A c \in Calls :
    AssembledCur(c) =>
      /\ KeysAreSpanIDs(td[c][1])
      /\ \A i \in 1..Len(CurGroup(c)) :
           /\ IDString(CurGroup(c)[i].spanID) \in DOMAIN td[c][1].Spans
           /\ td[c][1].Spans[IDString(CurGroup(c)[i].spanID)] = convertSpan(CurGroup(c)[i])

\* C8 as amended: the value at a span id is the conversion of the last span carrying it.
C8_SpansCoverGroup ==
  \A c \in Calls :
    AssembledCur(c) =>
      /\ KeysAreSpanIDs(td[c][1])
      /\ DOMAIN td[c][1].Spans = {IDString(CurGroup(c)[i].spanID) : i \in 1..Len(CurGroup(c))}
      /\ \A i \in 1..Len(CurGroup(c)) :
           /\ IDString(CurGroup(c)[i].spanID) \in DOMAIN td[c][1].Spans
           /\ td[c][1].Spans[IDString(CurGroup(c)[i].spanID)] =
                convertSpan(CurGroup(c)[LastWithID(CurGroup(c), i)])

\* A document assembled from a root and two more spans, two of the three
\* sharing a span id.
C8_Witness ==
  \E c \in Calls :
    /\ AssembledCur(c)
    /\ Len(CurGroup(c)) = 3
    /\ Cardinality(Parentless(CurGroup(c))) = 1
    /\ Cardinality(DOMAIN td[c][1].Spans) = 2
    /\ \E i \in 1..3 : LastWithID(CurGroup(c), i) # i
                        /\ CurGroup(c)[LastWithID(CurGroup(c), i)] # CurGroup(c)[i]

(***************************************************************************)
(* C9.  ExportSpans called with an empty batch returns success and makes   *)
(* zero Save calls, whatever the state of the context and of the store.    *)
(***************************************************************************)
C9_EmptyBatch ==
  \A c \in Calls :
    batch[c] = <<>> =>
      /\ SavesOf(c) = {}
      /\ converted[c] = <<>>
      /\ ret[c] \in {Pending, Nil}
      /\ pc[c] = "done" => ret[c] = Nil

\* A call with an empty batch and a cancelled context has returned.
C9_Witness ==
  \E c \in Calls : batch[c] = <<>> /\ pc[c] = "done" /\ ctxErr[c] \in CtxErrors

\* The Save calls of call c, in the order they were issued.
SaveSeq(c) == SelectSeq(saveLog, LAMBDA e : e.call = c)

(***************************************************************************)
(* C10.  Within one ExportSpans invocation the per-trace steps are         *)
(* sequential: the assembly of the next trace does not begin before the    *)
(* Save of the previous trace has returned, at most one Save of the        *)
(* invocation is in flight at any time, and Saves are issued in the order  *)
(* in which the assemblies completed.                                      *)
(***************************************************************************)
C10_Sequential ==
  \A c \in Calls :
    /\ Cardinality(InFlight(c)) <= 1
    /\ pc[c] # "saving" => InFlight(c) = {}
    /\ pc[c] = "convert" => Len(SaveSeq(c)) = Len(converted[c])
    /\ Len(SaveSeq(c)) <= Len(converted[c])
    /\ Len(converted[c]) <= Len(SaveSeq(c)) + 1
    /\ \A k \in 1..Len(SaveSeq(c)) :
         /\ SaveSeq(c)[k].tid = IDString(converted[c][k])
         /\ k < Len(converted[c]) => SaveSeq(c)[k].res = Nil

\* The second Save of a call is in flight, the first having returned.
C10_Witness ==
  \E c \in Calls :
    /\ Len(SaveSeq(c)) = 2
    /\ SaveSeq(c)[1].res = Nil
    /\ SaveSeq(c)[2].res = Pending
    /\ pc[c] = "saving"

\* The spans of the batch of call c that carry trace id tid, in batch order.
OwnGroup(c, tid) == SelectSeq(batch[c], LAMBDA s : s.traceID = tid)

OwnTraceIDs(c) == {batch[c][k].traceID : k \in 1..Len(batch[c])}

(***************************************************************************)
(* C11.  The exporter keeps no state between ExportSpans invocations: the  *)
(* Save calls of an invocation (trace ids and documents) and the error it  *)
(* returns depend only on its own batch, context and store responses,      *)
(* never on spans of earlier or concurrent invocations; a parentless span  *)
(* of trace T exported by another call neither appears in, nor causes a    *)
(* multiple-root error for, a call carrying another parentless span of T.  *)
(***************************************************************************)
C11_NoStateAcrossCalls ==
  \A c \in DOMAIN pc :
    /\ \A i \in SavesOf(c) :
         \E tid \in OwnTraceIDs(c) :
           /\ saveLog[i].tid = IDString(tid)
           /\ <<saveLog[i].td>> = convertTrace(OwnGroup(c, tid)).td
    /\ ret[c] = ErrMultipleRoots =>
         \E tid \in OwnTraceIDs(c) : convertTrace(OwnGroup(c, tid)).err = ErrMultipleRoots
    /\ ret[c] \in CtxErrors => ret[c] = ctxErr[c]
    /\ ret[c] \in StoreErrors => \E i \in SavesOf(c) : saveLog[i].res = ret[c]
    /\ ret[c] \in {Pending, Nil, ErrMultipleRoots} \cup CtxErrors \cup StoreErrors

\* One call has saved a parentless span of a trace; the other call, whose
\* batch is another parentless span of the same trace, then saved a document
\* holding its own span alone and returned nil.
C11_Witness ==
  \E c, o \in DOMAIN pc :
    /\ c # o
    /\ Len(batch[c]) = 1 /\ Len(batch[o]) = 1
    /\ Parentless(batch[c]) = {1} /\ Parentless(batch[o]) = {1}
    /\ batch[c][1].traceID = batch[o][1].traceID
    /\ batch[c][1].spanID # batch[o][1].spanID
    /\ batch[o][1].name # ""
    /\ Len(saveLog) = 2
    /\ saveLog[1].call = o /\ saveLog[1].res = Nil
    /\ saveLog[2].call = c /\ saveLog[2].res = Nil
    /\ Cardinality(DOMAIN saveLog[2].td.Spans) = 1
    /\ pc[c] = "done" /\ ret[c] = Nil

\* The Save calls that return nil in the step from the current state.
Landing == {i \in 1..Len(saveLog) : saveLog[i].res = Pending /\ saveLog'[i].res = Nil}

\* The document call c builds from its own spans of the trace whose id prints as tid.
OwnDocs(c, tid) ==
  {convertTrace(OwnGroup(c, t)).td[1] :
     t \in {u \in OwnTraceIDs(c) : IDString(u) = tid /\ convertTrace(OwnGroup(c, u)).err = Nil}}

(***************************************************************************)
(* C12.  Two concurrent ExportSpans invocations whose batches share a      *)
(* trace id are not serialized: while both Saves of that trace are in      *)
(* flight either may return first.  Over a store that overwrites by trace  *)
(* id, a Save that returns nil leaves as the stored document of the trace  *)
(* the document of that invocation, built from that invocation's spans     *)
(* alone (never a merge), and no other step changes the store: the final   *)
(* document is that of whichever Save landed last.                         *)
(***************************************************************************)
C12_LastSaveWins ==
  [][/\ \A i \in Landing :
          /\ saveLog[i].tid \in DOMAIN store'
          /\ store'[saveLog[i].tid] = saveLog[i].td
          /\ saveLog[i].td \in OwnDocs(saveLog[i].call, saveLog[i].tid)
     /\ Landing = {} => store' = store
     /\ \A c, o \in DOMAIN pc :
          (c # o /\ InFlight(c) # {} /\ InFlight(o) # {})
            => ENABLED SaveReturn(c) /\ ENABLED SaveReturn(o)
    ]_vars

\* Both invocations saved a document for the same trace and both Saves
\* returned nil; the two documents differ and the stored one is that of the
\* Save that was issued first, so that Save returned last: the two Saves were
\* in flight together and the later one did not wait for it.
C12_Witness ==
  /\ Len(saveLog) = 2
  /\ saveLog[1].call # saveLog[2].call
  /\ saveLog[1].tid = saveLog[2].tid
  /\ saveLog[1].td # saveLog[2].td
  /\ saveLog[1].res = Nil /\ saveLog[2].res = Nil
  /\ store[saveLog[1].tid] = saveLog[1].td
  /\ \A c \in DOMAIN pc : pc[c] = "done"

\* The invocations that had not begun when Shutdown last returned.
AfterShutdown == IF shutdown = <<>> THEN {} ELSE shutdown[1].idle

(***************************************************************************)
(* C13.  Shutdown returns success in every state (its context cancelled    *)
(* or not, after failed exports too), calls nothing on the store and       *)
(* changes nothing; an ExportSpans invocation made after Shutdown can      *)
(* begin and behaves as one made before: it saves, per trace of its own    *)
(* batch, the document built from its own spans, and returns nil when its  *)
(* context stays live and the store accepts every Save.                    *)
(***************************************************************************)
C13_ShutdownNoOp ==
  /\ [](/\ ENABLED Shutdown
        /\ \A c \in AfterShutdown :
             /\ (pc[c] = "idle" /\ \A o \in Before(c) : pc[o] = "done") => ENABLED Group(c)
             /\ \A i \in SavesOf(c) : saveLog[i].td \in OwnDocs(c, saveLog[i].tid)
             /\ (/\ pc[c] = "done"
                 /\ ctxErr[c] = Nil
                 /\ (\A i \in SavesOf(c) : saveLog[i].res = Nil)
                 /\ (\A t \in OwnTraceIDs(c) : convertTrace(OwnGroup(c, t)).err = Nil))
                 => (ret[c] = Nil /\ SavedTraceIDs(c) = BatchTraceIDs(c)))
  /\ [][shutdown' # shutdown =>
          /\ shutdown'[1].ret = Nil
          /\ UNCHANGED <<batch, ctxErr, pc, spansByTrace, todo, cur, td, converted, ret,
                         cancelAt, store, saveLog>>
       ]_vars

\* The first export failed on the store, Shutdown then returned nil under a
\* cancelled context while the second invocation had not begun, and the
\* second invocation has since saved its trace and returned nil.
C13_Witness ==
  /\ shutdown # <<>>
  /\ shutdown[1].ret = Nil /\ shutdown[1].ctxDone /\ shutdown[1].idle = {"c2"}
  /\ pc["c1"] = "done" /\ ret["c1"] \in StoreErrors
  /\ pc["c2"] = "done" /\ ret["c2"] = Nil
  /\ \E i \in SavesOf("c2") : saveLog[i].res = Nil /\ store[saveLog[i].tid] = saveLog[i].td

\* The positions of the batch of call c whose span carries trace id tid,
\* in increasing order.
PositionsOf(c, tid) == SelectSeq([k \in 1..Len(batch[c]) |-> k],
                                 LAMBDA k : batch[c][k].traceID = tid)

(***************************************************************************)
(* C14.  Grouping partitions the batch by trace id: once ExportSpans has   *)
(* grouped, the keys are exactly the trace ids of the batch, no group is   *)
(* empty, every span of a group carries the group's key, every batch       *)
(* position lies in exactly one group (the group of its own trace id),     *)
(* and a group lists its spans in their batch order.                       *)
(***************************************************************************)
C14_GroupingPartitions ==
  \A c \in DOMAIN pc :
    pc[c] # "idle" =>
      /\ DOMAIN spansByTrace[c] = OwnTraceIDs(c)
      /\ \A tid \in DOMAIN spansByTrace[c] :
           LET g == spansByTrace[c][tid]
               pos == PositionsOf(c, tid)
           IN /\ Len(g) >= 1
              /\ \A k \in 1..Len(g) : g[k].traceID = tid
              /\ Len(g) = Len(pos)
              /\ \A k \in 1..Len(g) : g[k] = batch[c][pos[k]]
      /\ \A k \in 1..Len(batch[c]) :
           Cardinality({tid \in DOMAIN spansByTrace[c] :
                          \E j \in 1..Len(PositionsOf(c, tid)) : PositionsOf(c, tid)[j] = k}) = 1

\* A grouped batch of three spans over two traces, the spans of one trace
\* apart in the batch and different: its group holds them in batch order.
C14_Witness ==
  \E c \in DOMAIN pc :
    /\ pc[c] # "idle"
    /\ Len(batch[c]) = 3
    /\ batch[c][1].traceID = batch[c][3].traceID
    /\ batch[c][1].traceID # batch[c][2].traceID
    /\ batch[c][1] # batch[c][3]
    /\ spansByTrace[c][batch[c][1].traceID] = <<batch[c][1], batch[c][3]>>
    /\ spansByTrace[c][batch[c][2].traceID] = <<batch[c][2]>>

\* The raw span's parent has a span id with a byte that is not zero.
ValidParent(s) == \E j \in 1..Len(s.parentSpanID) : s.parentSpanID[j] # 0

\* The spans of a group whose raw parent has no valid span id.
RawRoots(spans) == SelectSeq(spans, LAMBDA s : ~ValidParent(s))

(***************************************************************************)
(* C15.  convertSpan sets ParentSpanID to the printed span id of the raw   *)
(* span's parent if and only if that parent has a valid span id, and       *)
(* leaves it empty otherwise; the spans convertTrace treats as parentless  *)
(* are exactly those: a saved document has a zero header when its group    *)
(* has no span with an invalid parent and otherwise the header of such a   *)
(* span, and a multiple-root error is returned only for a group with two   *)
(* or more of them.                                                        *)
(***************************************************************************)
C15_ParentSpanID ==
  \A c \in DOMAIN pc :
    /\ \A k \in 1..Len(batch[c]) :
         LET s == batch[c][k]
             cs == convertSpan(s)
         IN /\ ValidParent(s) => cs.ParentSpanID = IDString(s.parentSpanID)
            /\ ~ValidParent(s) => cs.ParentSpanID = ""
            /\ cs.ParentSpanID = "" <=> ~ValidParent(s)
    /\ \A i \in SavesOf(c) :
         \E t \in OwnTraceIDs(c) :
           LET roots == RawRoots(OwnGroup(c, t))
               doc == saveLog[i].td
           IN /\ saveLog[i].tid = IDString(t)
              /\ roots = <<>> =>
                   doc.DisplayName = "" /\ doc.StartTime = 0 /\ doc.EndTime = 0
              /\ roots # <<>> =>
                   \E j \in 1..Len(roots) :
                     /\ doc.DisplayName = roots[j].name
                     /\ doc.StartTime = timeToMicroseconds(roots[j].startTime)
                     /\ doc.EndTime = timeToMicroseconds(roots[j].endTime)
              /\ \A k \in DOMAIN doc.Spans :
                   doc.Spans[k].ParentSpanID = "" =>
                     \E j \in 1..Len(roots) : IDString(roots[j].spanID) = k
    /\ ret[c] = ErrMultipleRoots =>
         \E t \in OwnTraceIDs(c) : Len(RawRoots(OwnGroup(c, t))) >= 2

\* A saved document of a two-span group, one span without a valid parent and
\* one whose parent is the other: the child carries the parent's printed id,
\* the other an empty ParentSpanID, and the header is the parentless span's.
C15_Witness ==
  \E c \in DOMAIN pc :
    /\ Len(batch[c]) = 2
    /\ ~ValidParent(batch[c][1]) /\ ValidParent(batch[c][2])
    /\ batch[c][1].traceID = batch[c][2].traceID
    /\ batch[c][2].parentSpanID = batch[c][1].spanID
    /\ batch[c][2].spanID # batch[c][1].spanID
    /\ batch[c][2].name # ""
    /\ \E i \in SavesOf(c) :
         LET doc == saveLog[i].td
         IN /\ doc.Spans[IDString(batch[c][2].spanID)].ParentSpanID = IDString(batch[c][1].spanID)
            /\ doc.Spans[IDString(batch[c][1].spanID)].ParentSpanID = ""
            /\ doc.DisplayName = batch[c][1].name

\* The group of its invocation's batch that Save call i was made for.
EntryGroup(i) ==
  LET c == saveLog[i].call
  IN OwnGroup(c, CHOOSE t \in OwnTraceIDs(c) : IDString(t) = saveLog[i].tid)

\* The document's entry k of Save call i was made from a span of that group.
HasRaw(i, k) ==
  /\ \E t \in OwnTraceIDs(saveLog[i].call) : IDString(t) = saveLog[i].tid
  /\ \E j \in 1..Len(EntryGroup(i)) : IDString(EntryGroup(i)[j].spanID) = k

\* The raw span entry k was made from: the last one of the group whose span
\* id prints as k.
RawOf(i, k) ==
  LET g == EntryGroup(i)
  IN g[CHOOSE j \in 1..Len(g) :
         /\ IDString(g[j].spanID) = k
         /\ \A m \in (j + 1)..Len(g) : IDString(g[m].spanID) # k]

DistinctSpanIDs(g) == \A i, j \in 1..Len(g) : g[i].spanID = g[j].spanID => i = j

\* The group g with its spans rearranged by the permutation p of its positions.
Reordered(g, p) == [k \in 1..Len(g) |-> g[p[k]]]

(***************************************************************************)
(* C17.  Assembly is insensitive to the order of the spans inside a        *)
(* group: for every group ExportSpans builds whose span ids are pairwise   *)
(* distinct, convertTrace gives on every permutation of the group the      *)
(* outcome it gives on the group (the multiple-root error on both, or      *)
(* equal documents on both).                                               *)
(***************************************************************************)
C17_OrderInsensitive ==
  \A c \in DOMAIN pc :
    pc[c] # "idle" =>
      \A tid \in DOMAIN spansByTrace[c] :
        LET g == spansByTrace[c][tid]
        IN DistinctSpanIDs(g) =>
             \A p \in Permutations(1..Len(g)) :
               convertTrace(Reordered(g, p)) = convertTrace(g)

(***************************************************************************)
(* C18.  The key of every Save call matches its content: for each call     *)
(* Save(ctx, T, doc) ExportSpans makes, T is the id of a trace of the      *)
(* batch, and every span in doc.Spans has TraceID equal to T and is the    *)
(* conversion of a span of the batch whose trace id is T; spans of the     *)
(* batch's other traces are never in the document.                         *)
(***************************************************************************)
C18_SaveKeyMatchesContent ==
  \A c \in DOMAIN pc :
    \A i \in SavesOf(c) :
      LET T == saveLog[i].tid
          doc == saveLog[i].td
      IN /\ T \in BatchTraceIDs(c)
         /\ \A k \in DOMAIN doc.Spans :
              /\ doc.Spans[k].TraceID = T
              /\ \E j \in 1..Len(batch[c]) :
                   /\ IDString(batch[c][j].traceID) = T
                   /\ doc.Spans[k] = convertSpan(batch[c][j])
         /\ \A j \in 1..Len(batch[c]) :
              IDString(batch[c][j].traceID) # T =>
                \A k \in DOMAIN doc.Spans : doc.Spans[k] # convertSpan(batch[c][j])

\* A batch with spans of two traces that carry the same span id: both traces
\* were saved, each document holding the one span of its own trace.
C18_Witness ==
  \E c \in DOMAIN pc :
    /\ Len(batch[c]) = 2
    /\ batch[c][1].traceID # batch[c][2].traceID
    /\ batch[c][1].spanID = batch[c][2].spanID
    /\ Cardinality(SavesOf(c)) = 2
    /\ \A i \in SavesOf(c) :
         /\ saveLog[i].res = Nil
         /\ Cardinality(DOMAIN saveLog[i].td.Spans) = 1
         /\ \A k \in DOMAIN saveLog[i].td.Spans : saveLog[i].td.Spans[k].TraceID = saveLog[i].tid

====
